---------------------------- MODULE Spec2Model ----------------------------
(***************************************************************************)
(* The conversation-orchestration state machine of NovusAI_Backend:       *)
(* the /api/synthesize handler (app/agents/synthesis.py) working on the   *)
(* in-memory Session Store (app/services/conversation_state.py) and the   *)
(* chat_history table (app/models/chat.py).                                *)
(*                                                                         *)
(* synthesize is an async handler: it runs atomically between its await   *)
(* points (run_groq, the POST to /api/orchestrate, the POST to            *)
(* /api/visualize).  Each action below is one such atomic stretch.        *)
(***************************************************************************)
EXTENDS Naturals, Sequences, FiniteSets, TLC

(***************************************************************************)
(* Bounds of the model.                                                    *)
(***************************************************************************)
MaxTurns == 3

\* incidents in one behaviour: a failure of a collaborator (interpreter,
\* aggregation, completion, visualization, commit), a restart of the process,
\* or a request taken while another one is in flight
MaxIncidents == 1

(***************************************************************************)
(* Small input domains.                                                    *)
(***************************************************************************)
\* concurrent request handlers of the event loop
Procs == {"p1", "p2"}

\* conversation ids (client supplied, or uuid4 of create_conversation)
CIDs == {"c1"}

\* drug names as _parse_llm_output normalises them (lower case)
Drugs == {"aspirin", "metformin"}

\* what interpret_query can name as the drugs of one message
DrugInputs == {{}, {"metformin"}, {"aspirin", "metformin"}}

\* condition lists as expand_condition returns them: [base, synonyms...],
\* lower case, no duplicates; <<>> when the message names no condition
CondInputs == {<<>>, <<"mash">>, <<"nash", "mash">>, <<"t2d">>}

NonGeneral == {"CLINICAL", "COMMERCIAL"}

InterpIntents == NonGeneral \cup {"GENERAL"}

\* the text /api/orchestrate answers request n with for a drug: every call
\* yields a text of its own, so that texts of two calls are told apart
Text(n, drug) == "EV" \o ToString(n) \o ":" \o drug

Apology == "Sorry, I couldn't generate a response at this time."

ConditionChangeAnswer == "Condition change is not allowed. Please start a new chat."

LLMAnswer == "answer"

VARIABLES
    store,     \* _CONVERSATIONS: conversation id -> state dict
    db,        \* rows of the chat_history table, in insertion (timestamp) order
    slot,      \* per request handler: position and locals of synthesize
    last,      \* the request that completed last: its locals and its response
    turns,     \* number of requests received so far
    incidents  \* number of failures, restarts and overlapping requests so far

vars == <<store, db, slot, last, turns, incidents>>

(***************************************************************************)
(* Helpers on sets and sequences.                                          *)
(***************************************************************************)
Range(s) == {s[i] : i \in 1..Len(s)}

\* list(a_set): some ordering of the set (the iteration order of a Python set
\* of strings depends on the per-process hash seed)
Lists(S) == {s \in [1..Cardinality(S) -> S] : Range(s) = S}

\* str.lower() on the condition terms
Lower(c) ==
    CASE c = "NASH" -> "nash"
      [] c = "MASH" -> "mash"
      [] c = "NAFLD" -> "nafld"
      [] c = "T2D" -> "t2d"
      [] OTHER -> c

LowerSet(conds) == {Lower(conds[i]) : i \in 1..Len(conds)}

\* code point order of the condition terms, as sorted() compares them
TermRank(c) ==
    CASE c = "MASH" -> 1
      [] c = "NAFLD" -> 2
      [] c = "NASH" -> 3
      [] c = "T2D" -> 4
      [] c = "mash" -> 5
      [] c = "nafld" -> 6
      [] c = "nash" -> 7
      [] c = "t2d" -> 8
      [] OTHER -> 9

RECURSIVE Insert(_, _)
Insert(c, s) ==
    IF s = <<>> THEN <<c>>
    ELSE IF TermRank(c) < TermRank(Head(s)) THEN <<c>> \o s
    ELSE <<Head(s)>> \o Insert(c, Tail(s))

\* sorted(active_conditions): keeps duplicates, as sorted() does
RECURSIVE Sorted(_)
Sorted(s) == IF s = <<>> THEN <<>> ELSE Insert(Head(s), Sorted(Tail(s)))

RECURSIVE Join(_, _)
Join(s, sep) ==
    IF s = <<>> THEN ""
    ELSE IF Len(s) = 1 THEN s[1]
    ELSE s[1] \o sep \o Join(Tail(s), sep)

\* condition_key = "|".join(sorted(active_conditions))
ConditionKey(conds) == Join(Sorted(conds), "|")

\* cache_key = f"{drug}|{condition_key}|{resolved_intent}"
CacheKey(drug, condition_key, intent) == drug \o "|" \o condition_key \o "|" \o intent

(***************************************************************************)
(* Session Store.                                                          *)
(***************************************************************************)
\* the default state literal of create_conversation and of synthesize
DefaultState ==
    [ conditions    |-> <<>>,
      drugs         |-> {},
      mode          |-> "SINGLE",
      last_intent   |-> "None",
      cache         |-> <<>>,
      chat_history  |-> <<>> ]

HistoryCap == 10

\* LastN that keeps the first n entries (drops the newest)
LastNOldest(s, n) == IF Len(s) <= n THEN s ELSE SubSeq(s, 1, n)

\* state["chat_history"][-10:]
LastN(s, n) == IF Len(s) <= n THEN s ELSE SubSeq(s, Len(s) - n + 1, Len(s))

\* update_conversation on one state dict; upd is the record of the keyword
\* arguments that are passed (an argument left out is None and is skipped)
UpdateConversation(st, upd) ==
    [ conditions   |-> IF "active_conditions" \in DOMAIN upd
                       THEN upd.active_conditions ELSE st.conditions,
      drugs        |-> IF "drugs_seen" \in DOMAIN upd
                       THEN upd.drugs_seen ELSE st.drugs,
      mode         |-> IF "mode" \in DOMAIN upd THEN upd.mode ELSE st.mode,
      last_intent  |-> IF "last_intent" \in DOMAIN upd
                       THEN upd.last_intent ELSE st.last_intent,
      cache        |-> IF "evidence_cache" \in DOMAIN upd
                       THEN upd.evidence_cache ELSE st.cache,
      chat_history |-> IF "chat_entry" \in DOMAIN upd
                       THEN LastN(Append(st.chat_history, upd.chat_entry), HistoryCap)
                       ELSE st.chat_history ]

(***************************************************************************)
(* Rehydration from the chat_history table.                                *)
(***************************************************************************)
RowsOf(cid) == {i \in 1..Len(db) : db[i].cid = cid}

HasHistory(cid) == RowsOf(cid) # {}

\* LastRow that takes the earliest row of the conversation
FirstRow(cid) == db[CHOOSE i \in RowsOf(cid) : \A j \in RowsOf(cid) : i <= j]

\* .filter(conversation_id == cid).order_by(timestamp.desc()).first()
LastRow(cid) == db[CHOOSE i \in RowsOf(cid) : \A j \in RowsOf(cid) : j <= i]

\* the state synthesize builds when get_conversation(cid) is None.  A row of
\* a GENERAL turn holds conditions = None and active_drugs = None, which
\* "or []" turns into empty lists; the row's intent and mode are taken as
\* they are
Hydrate(cid) ==
    IF HasHistory(cid)
    THEN UpdateConversation(DefaultState,
             [ active_conditions |-> LastRow(cid).conditions,
               drugs_seen        |-> LastRow(cid).drugs,
               last_intent       |-> LastRow(cid).intent,
               mode              |-> LastRow(cid).mode ])
    ELSE DefaultState

\* Loaded that rebuilds the state from the table although the store holds it
LoadedFromHistory(cid) == Hydrate(cid)

\* the state dict the handler works on after "SAFE CONVERSATION INIT"
Loaded(cid) == IF cid \in DOMAIN store THEN store[cid] ELSE Hydrate(cid)


(***************************************************************************)
(* Conversation arbitration (synthesize, lines 334-388).                   *)
(***************************************************************************)
\* active_set.isdisjoint(new_set) on the lower-cased terms
Disjoint(active, conds) == LowerSet(active) \cap LowerSet(conds) = {}

\* Rejects with the test inverted (refuses the overlapping sets)
RejectsInverted(active, conds) ==
    active # <<>> /\ conds # <<>> /\ ~Disjoint(active, conds)

\* the turn is refused: a lock exists, conditions are supplied, no overlap
Rejects(active, conds) == active # <<>> /\ conds # <<>> /\ Disjoint(active, conds)

\* Merged that keeps the new conditions only
MergedNewOnly(active, conds) == Lists(LowerSet(conds))

\* merged = list(active_set.union(new_set))
Merged(active, conds) == Lists(LowerSet(active) \cup LowerSet(conds))

\* the lists active_conditions can hold after lock resolution of a turn that
\* is not refused: adopted, widened to the union, or reused
LockedLists(active, conds) ==
    IF active = <<>> THEN {conds}
    ELSE IF conds = <<>> THEN {active}
    ELSE Merged(active, conds)

\* AccumulateDrugs that keeps the drugs of this turn only
AccumulateDrugsReplace(seen, drugs) == drugs

\* for d in drugs: if d not in drugs_seen: drugs_seen.add(d)
AccumulateDrugs(seen, drugs) == seen \cup drugs

\* resolved_intent = intent if intent != "GENERAL" else last_intent or "GENERAL"
ResolvedIntent(intent, last_intent) ==
    IF intent # "GENERAL" THEN intent
    ELSE IF last_intent # "None" THEN last_intent
    ELSE "GENERAL"

\* mode = "COMPARISON" if len(active_drugs) > 1 else "SINGLE"
ModeOf(active_drugs) == IF Cardinality(active_drugs) > 1 THEN "COMPARISON" ELSE "SINGLE"

(***************************************************************************)
(* Evidence cache (synthesize, lines 393-456).                             *)
(***************************************************************************)
\* evidence_cache.get(cache_key, "")
Get(cache, key) == IF key \in DOMAIN cache THEN cache[key] ELSE ""

\* evidence_cache[cache_key] = resp.text
Put(cache, key, text) == (key :> text) @@ cache

\* Misses that never consults the cache
MissesAlways(pending, cache, condition_key, intent) == pending

\* the drugs of the loop that are not answered by the cache
Misses(pending, cache, condition_key, intent) ==
    {d \in pending : CacheKey(d, condition_key, intent) \notin DOMAIN cache}

\* the drug labels whose evidence goes into the prompt: active_drugs, or
\* "NONE" in SINGLE mode when no drug was ever named
PromptLabels(active_drugs) == IF active_drugs = {} THEN {"NONE"} ELSE active_drugs

\* the evidence text per label that the prompt is built from
PromptEvidence(active_drugs, cache, condition_key, intent) ==
    [d \in PromptLabels(active_drugs) |-> Get(cache, CacheKey(d, condition_key, intent))]

\* market_text or clinical_text: some tagged section is found in
\* full_evidence (every bundle the orchestrator returns for COMMERCIAL holds
\* a MARKET section; the empty text holds none)
VizInputsPresent(full_evidence) == full_evidence # ""

\* NeedsViz without the test of the mode
NeedsVizAnyMode(mode, intent, evidence) ==
    /\ intent \in {"COMMERCIAL", "FULL_OPPORTUNITY"}
    /\ \E d \in DOMAIN evidence : VizInputsPresent(evidence[d])

\* the visualization call is attempted for this turn
NeedsViz(mode, intent, evidence) ==
    /\ mode = "SINGLE"
    /\ intent \in {"COMMERCIAL", "FULL_OPPORTUNITY"}
    /\ \E d \in DOMAIN evidence : VizInputsPresent(evidence[d])

(***************************************************************************)
(* Request handlers.                                                       *)
(***************************************************************************)
NoCalls == [orch |-> 0, llm |-> 0, viz |-> 0, rows |-> 0]

IdleSlot ==
    [ pc |-> "idle", n |-> 0, cid |-> "-", interp |-> "-", conds_in |-> <<>>,
      prior |-> "None", intent |-> "-", mode |-> "-",
      conditions |-> <<>>, drugs |-> {}, pending |-> {}, cur |-> "-",
      evidence |-> <<>>, answer |-> "-", cache0 |-> <<>>,
      calls |-> NoCalls, result |-> [type |-> "none"] ]

InFlight(p) == slot[p].pc # "idle"

\* 1 when the request p takes overlaps a request in flight
Overlap(p) == IF \E q \in Procs \ {p} : InFlight(q) THEN 1 ELSE 0

\* a handler is free and the bounds on requests and incidents are not reached
CanStart(p) ==
    /\ ~InFlight(p)
    /\ turns < MaxTurns
    /\ incidents + Overlap(p) <= MaxIncidents

\* the request is counted, and so are its incidents: the overlap, and `failed`
\* failures of collaborators in its first step
Taken(p, failed) ==
    /\ turns' = turns + 1
    /\ incidents' = incidents + Overlap(p) + failed

\* the locals of a request at the point where interpret_query has returned
Begin(cid, conds, intent) ==
    [ IdleSlot EXCEPT !.n = turns + 1, !.cid = cid, !.interp = intent,
                      !.conds_in = conds,
                      !.prior = Loaded(cid).last_intent,
                      !.cache0 = Loaded(cid).cache ]

\* _CONVERSATIONS with the state dict of cid set to st
WithState(cid, st) == (cid :> st) @@ store

HttpError(status, detail) == [type |-> "http_error", status |-> status, detail |-> detail]

\* the handler of p returns (or raises) with the response in sl.result
Complete(p, sl) ==
    /\ slot' = [slot EXCEPT ![p] = IdleSlot]
    /\ last' = [sl EXCEPT !.pc = "done"]

\* message.strip() is empty: HTTPException(400) before anything else
EmptyMessage(p) ==
    /\ CanStart(p)
    /\ Complete(p, [IdleSlot EXCEPT !.n = turns + 1,
                                    !.result = HttpError(400, "Empty message")])
    /\ Taken(p, 0)
    /\ UNCHANGED <<store, db>>

\* interpret_query raises (the completion service fails, or its output does
\* not parse): the state dict, if it was created, stays in the store
InterpretFails(p) ==
    /\ CanStart(p)
    /\ \E cid \in CIDs :
         /\ Complete(p, [IdleSlot EXCEPT !.n = turns + 1, !.cid = cid,
                                         !.result = HttpError(500, "interpret_query")])
         /\ store' = WithState(cid, Loaded(cid))
    /\ incidents + Overlap(p) < MaxIncidents
    /\ Taken(p, 1)
    /\ UNCHANGED db

\* the result of a refused turn
RejectResult(cid) ==
    [ type |-> "error", answer |-> ConditionChangeAnswer, conversation_id |-> cid ]

\* the state dict of the conversation after a refused turn: as loaded
RejectState(st, conds) == st

\* RejectRows that records the refused turn like a GENERAL one
RejectRowsRecorded(sl) ==
    << [ n |-> sl.n, cid |-> sl.cid, answer |-> sl.result.answer,
         conditions |-> <<>>, drugs |-> {},
         intent |-> sl.interp, mode |-> "CHAT", viz |-> "None" ] >>

\* the rows a refused turn adds to the chat_history table: none
RejectRows(sl) == <<>>

\* lines 340-352: condition change refused
RejectConditionChange(p) ==
    /\ CanStart(p)
    /\ \E cid \in CIDs, conds \in CondInputs, intent \in NonGeneral :
         /\ Rejects(Loaded(cid).conditions, conds)
         /\ LET sl == [Begin(cid, conds, intent) EXCEPT !.result = RejectResult(cid)]
            IN  /\ Complete(p, [sl EXCEPT !.calls.rows = Len(RejectRows(sl))])
                /\ db' = db \o RejectRows(sl)
         /\ store' = WithState(cid, RejectState(Loaded(cid), conds))
    /\ Taken(p, 0)

\* NoCondition with the drugs of the message accumulated before the test
NoConditionAfterDrugs(p) ==
    /\ CanStart(p)
    /\ \E cid \in CIDs, conds \in CondInputs, drugs \in DrugInputs, intent \in NonGeneral :
         /\ ~Rejects(Loaded(cid).conditions, conds)
         /\ LockedLists(Loaded(cid).conditions, conds) = {<<>>}
         /\ Complete(p, [Begin(cid, conds, intent) EXCEPT
                           !.result = HttpError(400, "No condition set")])
         /\ store' = WithState(cid, UpdateConversation(Loaded(cid),
                         [drugs_seen |-> AccumulateDrugs(Loaded(cid).drugs, drugs),
                          mode |-> ModeOf(AccumulateDrugs(Loaded(cid).drugs, drugs))]))
    /\ Taken(p, 0)
    /\ UNCHANGED db

\* lines 360-364: no lock and no condition supplied: HTTPException(400)
NoCondition(p) ==
    /\ CanStart(p)
    /\ \E cid \in CIDs, conds \in CondInputs, intent \in NonGeneral :
         /\ ~Rejects(Loaded(cid).conditions, conds)
         /\ LockedLists(Loaded(cid).conditions, conds) = {<<>>}
         /\ Complete(p, [Begin(cid, conds, intent) EXCEPT
                           !.result = HttpError(400, "No condition set")])
         /\ store' = WithState(cid, Loaded(cid))
    /\ Taken(p, 0)
    /\ UNCHANGED db

\* GeneralState that adopts the conditions of the message as the lock
GeneralStateAdopts(st, conds) ==
    IF conds = <<>> THEN st ELSE UpdateConversation(st, [active_conditions |-> conds])

\* the state dict of the conversation when a GENERAL turn awaits run_groq:
\* as loaded, the conditions interpret_query found are not read
GeneralState(st, conds) == st

\* lines 265-291: a GENERAL turn builds its prompt from the state and awaits
\* run_groq
StartGeneral(p) ==
    /\ CanStart(p)
    /\ \E cid \in CIDs, conds \in CondInputs :
         /\ slot' = [slot EXCEPT ![p] =
                       [Begin(cid, conds, "GENERAL") EXCEPT
                          !.pc = "gen_llm",
                          !.calls = [NoCalls EXCEPT !.llm = 1]]]
         /\ store' = WithState(cid, GeneralState(Loaded(cid), conds))
    /\ Taken(p, 0)
    /\ UNCHANGED <<db, last>>

\* the loop of lines 397-417 from the drugs still to visit: it stops at the
\* first drug the cache does not answer and awaits /api/orchestrate for it;
\* when no drug is left it goes on to lines 420-456, builds the prompt from
\* the cache and awaits run_groq
Dispatch(sl, cache) ==
    LET key     == ConditionKey(sl.conditions)
        misses  == Misses(sl.pending, cache, key, sl.intent)
    IN  IF misses = {}
        THEN { [sl EXCEPT !.pc = "llm", !.pending = {}, !.cur = "-",
                          !.evidence = PromptEvidence(sl.drugs, cache, key, sl.intent),
                          !.calls.llm = @ + 1] }
        ELSE { [sl EXCEPT !.pc = "orch", !.cur = d, !.pending = @ \ {d},
                          !.calls.orch = @ + 1] : d \in misses }

\* lines 334-417 for a turn that passes arbitration: lock, drugs, intent and
\* mode are stored, then the evidence loop starts
StartAnalysis(p) ==
    /\ CanStart(p)
    /\ \E cid \in CIDs, drugs \in DrugInputs, conds \in CondInputs, intent \in NonGeneral :
         LET st == Loaded(cid) IN
         /\ ~Rejects(st.conditions, conds)
         /\ \E active \in LockedLists(st.conditions, conds) :
              /\ active # <<>>
              /\ LET seen     == AccumulateDrugs(st.drugs, drugs)
                     resolved == ResolvedIntent(intent, st.last_intent)
                     mode     == ModeOf(seen)
                     st1      == UpdateConversation(st, [active_conditions |-> active])
                     st2      == UpdateConversation(st1, [drugs_seen |-> seen])
                     st3      == UpdateConversation(st2, [last_intent |-> resolved])
                     st4      == UpdateConversation(st3, [mode |-> mode])
                     sl       == [Begin(cid, conds, intent) EXCEPT
                                     !.intent = resolved, !.mode = mode,
                                     !.conditions = active, !.drugs = seen,
                                     !.pending = seen]
                 IN  /\ store' = WithState(cid, st4)
                     /\ \E nxt \in Dispatch(sl, st4.cache) :
                          slot' = [slot EXCEPT ![p] = nxt]
    /\ Taken(p, 0)
    /\ UNCHANGED <<db, last>>

\* a failed call counts as one injected failure
Cost(ok) == IF ok THEN 0 ELSE 1

\* the outcomes of one collaborator call when `used` failures were injected
\* earlier in the same step: TRUE, and FALSE (a failure) while the bound on
\* injected failures allows it
Outcomes(used) == IF incidents + used < MaxIncidents THEN BOOLEAN ELSE {TRUE}

\* the bundle of a call in which an agent answered with another status than
\* 200: orchestrate returns it with status 200 all the same (see AgentNon200),
\* the placeholder in that agent's section
TextWithPlaceholder(n, drug) == Text(n, drug) \o " ERROR: Agent call failed."

\* OrchOk that does not store a bundle holding the placeholder
OrchOkSkipsPlaceholder(p) ==
    /\ slot[p].pc = "orch"
    /\ \E whole \in Outcomes(0) :
         LET sl    == slot[p]
             text  == IF whole THEN Text(sl.n, sl.cur) ELSE TextWithPlaceholder(sl.n, sl.cur)
             key   == CacheKey(sl.cur, ConditionKey(sl.conditions), sl.intent)
             cache == IF whole THEN Put(store[sl.cid].cache, key, text) ELSE store[sl.cid].cache
         IN  /\ store' = [store EXCEPT ![sl.cid].cache = cache]
             /\ \E nxt \in Dispatch(sl, cache) : slot' = [slot EXCEPT ![p] = nxt]
             /\ incidents' = incidents + Cost(whole)
    /\ UNCHANGED <<db, last, turns>>

\* lines 406-417: /api/orchestrate answers 2xx, with the bundle of agents that
\* all answered or with one holding the placeholder of a failed agent (one
\* injected failure); the text is cached under the key (in the dict the
\* store holds) and the loop goes on
OrchOk(p) ==
    /\ slot[p].pc = "orch"
    /\ \E whole \in Outcomes(0) :
         LET sl    == slot[p]
             text  == IF whole THEN Text(sl.n, sl.cur) ELSE TextWithPlaceholder(sl.n, sl.cur)
             key   == CacheKey(sl.cur, ConditionKey(sl.conditions), sl.intent)
             cache == Put(store[sl.cid].cache, key, text)
         IN  /\ store' = [store EXCEPT ![sl.cid].cache = cache]
             /\ \E nxt \in Dispatch(sl, cache) : slot' = [slot EXCEPT ![p] = nxt]
             /\ incidents' = incidents + Cost(whole)
    /\ UNCHANGED <<db, last, turns>>

\* line 416: resp.raise_for_status() raises on a 4xx/5xx answer (and the
\* POST itself raises on a timeout); nothing catches it, the request ends
\* with a server error
OrchFails(p) ==
    /\ slot[p].pc = "orch"
    /\ Complete(p, [slot[p] EXCEPT !.result = HttpError(500, "orchestrate")])
    /\ incidents < MaxIncidents
    /\ incidents' = incidents + 1
    /\ UNCHANGED <<store, db, turns>>

\* RunGroq without the except clause's fallback text
RunGroqNoFallback(ok) == IF ok THEN LLMAnswer ELSE ""

\* run_groq: the completion text, or the fixed apology when the call raises
RunGroq(ok) == IF ok THEN LLMAnswer ELSE Apology

AnalysisRow(sl, answer, viz) ==
    [ n |-> sl.n, cid |-> sl.cid, answer |-> answer,
      conditions |-> sl.conditions, drugs |-> sl.drugs,
      intent |-> sl.intent, mode |-> sl.mode, viz |-> viz ]

AnalysisResult(sl, answer, viz) ==
    [ type |-> "analysis", answer |-> answer, conversation_id |-> sl.cid,
      mode |-> sl.mode, active_drugs |-> sl.drugs, condition |-> sl.conditions,
      intent |-> sl.intent, visualizations |-> viz ]

\* lines 500-541: the row is added and committed (a failing commit is logged
\* and rolled back), then the result is returned
Persist(p, sl, answer, viz, used) ==
    \E committed \in Outcomes(used) :
      /\ incidents' = incidents + used + Cost(committed)
      /\ db' = IF committed THEN Append(db, AnalysisRow(sl, answer, viz)) ELSE db
      /\ Complete(p, [sl EXCEPT !.answer = answer,
                                !.calls.rows = IF committed THEN 1 ELSE 0,
                                !.result = AnalysisResult(sl, answer, viz)])

\* lines 439/456-495: run_groq returns; either the visualization call is
\* awaited or the turn is persisted and returned
LLMReturns(p) ==
    /\ slot[p].pc = "llm"
    /\ \E ok \in Outcomes(0) :
         LET sl == slot[p] IN
         IF NeedsViz(sl.mode, sl.intent, sl.evidence)
         THEN /\ slot' = [slot EXCEPT ![p].pc = "viz", ![p].answer = RunGroq(ok),
                                      ![p].calls.viz = 1]
              /\ incidents' = incidents + Cost(ok)
              /\ UNCHANGED <<db, last>>
         ELSE Persist(p, sl, RunGroq(ok), "None", Cost(ok))
    /\ UNCHANGED <<store, turns>>

\* VizReturns without the try/except around the call: a failure ends the
\* request with a server error and nothing is saved
VizReturnsRaises(p) ==
    /\ slot[p].pc = "viz"
    /\ \E ok \in Outcomes(0) :
         IF ok THEN Persist(p, slot[p], slot[p].answer, "VIZ", 0)
         ELSE /\ Complete(p, [slot[p] EXCEPT !.result = HttpError(500, "visualize")])
              /\ incidents' = incidents + 1
              /\ db' = db
    /\ UNCHANGED <<store, turns>>

\* lines 480-519: /api/visualize answers 200 (ok) or fails in any way
VizReturns(p) ==
    /\ slot[p].pc = "viz"
    /\ \E ok \in Outcomes(0) :
         Persist(p, slot[p], slot[p].answer, IF ok THEN "VIZ" ELSE "None", Cost(ok))
    /\ UNCHANGED <<store, turns>>

GeneralRow(sl, answer) ==
    [ n |-> sl.n, cid |-> sl.cid, answer |-> answer,
      conditions |-> <<>>, drugs |-> {},
      intent |-> "GENERAL", mode |-> "CHAT", viz |-> "None" ]

GeneralResult(sl, answer) ==
    [ type |-> "conversation", answer |-> answer, conversation_id |-> sl.cid,
      mode |-> "CHAT", active_drugs |-> {}, condition |-> "None",
      intent |-> "GENERAL", visualizations |-> "None" ]

\* lines 291-329: run_groq returns on the GENERAL path; the chat entry is
\* stored, the row is committed (a failing commit is not caught here) and
\* the result is returned
GeneralReturns(p) ==
    /\ slot[p].pc = "gen_llm"
    /\ \E ok \in Outcomes(0) : \E committed \in Outcomes(Cost(ok)) :
         LET sl     == slot[p]
             answer == RunGroq(ok)
         IN  /\ incidents' = incidents + Cost(ok) + Cost(committed)
             /\ store' = [store EXCEPT ![sl.cid] =
                            UpdateConversation(@, [chat_entry |->
                                [n |-> sl.n, assistant |-> answer]])]
             /\ db' = IF committed THEN Append(db, GeneralRow(sl, answer)) ELSE db
             /\ Complete(p, [sl EXCEPT !.answer = answer,
                                       !.calls.rows = IF committed THEN 1 ELSE 0,
                                       !.result = IF committed
                                                  THEN GeneralResult(sl, answer)
                                                  ELSE HttpError(500, "commit")])
    /\ UNCHANGED turns

\* the process is restarted: _CONVERSATIONS is empty again and the requests
\* in flight are gone; the chat_history table stays
Restart ==
    /\ incidents < MaxIncidents
    /\ store # <<>>
    /\ store' = <<>>
    /\ slot' = [p \in Procs |-> IdleSlot]
    /\ incidents' = incidents + 1
    /\ UNCHANGED <<db, last, turns>>

Init ==
    /\ store = <<>>
    /\ db = <<>>
    /\ slot = [p \in Procs |-> IdleSlot]
    /\ last = IdleSlot
    /\ turns = 0
    /\ incidents = 0

Step(p) ==
    \/ EmptyMessage(p)
    \/ InterpretFails(p)
    \/ StartGeneral(p)
    \/ RejectConditionChange(p)
    \/ NoCondition(p)
    \/ StartAnalysis(p)
    \/ OrchOk(p)
    \/ OrchFails(p)
    \/ LLMReturns(p)
    \/ VizReturns(p)
    \/ GeneralReturns(p)

Next == (\E p \in Procs : Step(p)) \/ Restart

Spec == Init /\ [][Next]_vars

\* requests are served one after the other: a handler runs only while no
\* other request is in flight
Alone(p) == \A q \in Procs \ {p} : ~InFlight(q)

SeqStep(p) ==
    \/ Alone(p) /\ EmptyMessage(p)
    \/ Alone(p) /\ InterpretFails(p)
    \/ Alone(p) /\ StartGeneral(p)
    \/ Alone(p) /\ RejectConditionChange(p)
    \/ Alone(p) /\ NoCondition(p)
    \/ Alone(p) /\ StartAnalysis(p)
    \/ Alone(p) /\ OrchOk(p)
    \/ Alone(p) /\ OrchFails(p)
    \/ Alone(p) /\ LLMReturns(p)
    \/ Alone(p) /\ VizReturns(p)
    \/ Alone(p) /\ GeneralReturns(p)

NextSeq == (\E p \in Procs : SeqStep(p)) \/ Restart

SpecSeq == Init /\ [][NextSeq]_vars

(***************************************************************************)
(* update_conversation on its own: calls with any keyword arguments on     *)
(* stores of two conversation ids.                                         *)
(***************************************************************************)
\* conversation ids of the calls
UpdCIDs == {"c1", "c2"}

\* a state dict as a conversation holds it after some turns, its chat
\* history at the cap
PopulatedState ==
    [ conditions    |-> <<"mash">>,
      drugs         |-> {"metformin"},
      mode          |-> "SINGLE",
      last_intent   |-> "CLINICAL",
      cache         |-> Put(<<>>, CacheKey("metformin", "mash", "CLINICAL"), Text(1, "metformin")),
      chat_history  |-> [i \in 1..HistoryCap |-> [n |-> i, assistant |-> LLMAnswer]] ]

\* the stores the calls start from: each id missing, fresh or populated
UpdStores ==
    UNION { [ids -> {DefaultState, PopulatedState}] : ids \in SUBSET UpdCIDs }

\* the keyword arguments of one call, as a record of the arguments that are
\* not None: the calls synthesize makes (lines 243-249, 338, 357, 375, 382,
\* 388, 420, 296-299) and calls passing an empty list or dict
UpdArgs ==
    { [active_conditions |-> <<"t2d">>],
      [active_conditions |-> <<>>],
      [drugs_seen |-> {"aspirin", "metformin"}],
      [drugs_seen |-> {}],
      [mode |-> "COMPARISON"],
      [last_intent |-> "COMMERCIAL"],
      [evidence_cache |-> <<>>],
      [chat_entry |-> [n |-> 0, assistant |-> Apology]],
      [active_conditions |-> <<>>, drugs_seen |-> {},
       last_intent |-> "GENERAL", mode |-> "CHAT"] }

\* UpdateStore that creates the entry of a missing id
UpdateStoreCreates(s, cid, upd) ==
    IF cid \in DOMAIN s
    THEN [s EXCEPT ![cid] = UpdateConversation(s[cid], upd)]
    ELSE (cid :> UpdateConversation(DefaultState, upd)) @@ s

\* update_conversation(conversation_id, **upd) on _CONVERSATIONS: lines 78-80
\* return when the id is not held
UpdateStore(s, cid, upd) ==
    IF cid \in DOMAIN s
    THEN [s EXCEPT ![cid] = UpdateConversation(s[cid], upd)]
    ELSE s

InitUpd ==
    /\ store \in UpdStores
    /\ db = <<>>
    /\ slot = [p \in Procs |-> IdleSlot]
    /\ last = [cid |-> "-", upd |-> [mode |-> "-"]]
    /\ turns = 0
    /\ incidents = 0

\* one call; last records its arguments
ApplyUpdate ==
    /\ turns < MaxTurns
    /\ \E cid \in UpdCIDs, upd \in UpdArgs :
         /\ store' = UpdateStore(store, cid, upd)
         /\ last' = [cid |-> cid, upd |-> upd]
    /\ turns' = turns + 1
    /\ UNCHANGED <<db, slot, incidents>>

NextUpd == ApplyUpdate

SpecUpd == InitUpd /\ [][NextUpd]_vars

(***************************************************************************)
(* The aggregation endpoint POST /api/orchestrate (app/agents/             *)
(* orchestration.py) on its own, and the slices synthesize takes from the  *)
(* bundle it returns.  A text is a sequence of tokens: the tag prefix      *)
(* "[AGENT:", the rest of a tag (" ", "MARKET]"), the bundle markers, the  *)
(* white space tokens " " and "\n", and words of the agents' reports.      *)
(*                                                                         *)
(* Under SpecOrch the variables are read as follows: slot[p] holds the     *)
(* locals of an orchestrate request, last the response of the request      *)
(* received last,                                                          *)
(* turns the requests received and incidents the failed agent calls;       *)
(* store and db are not used.                                              *)
(***************************************************************************)
AGENTS == {"clinical", "literature", "patents", "market", "web", "internal"}

INTENT_AGENT_MAP_NoWeb ==
    [ CLINICAL         |-> <<"clinical", "literature">>,
      COMMERCIAL       |-> <<"market", "patents">>,
      INTERNAL         |-> <<"internal">>,
      FULL_OPPORTUNITY |-> <<"clinical", "literature", "market", "patents",
                             "web", "internal">> ]

INTENT_AGENT_MAP ==
    [ CLINICAL         |-> <<"clinical", "literature">>,
      COMMERCIAL       |-> <<"market", "patents", "web">>,
      INTERNAL         |-> <<"internal">>,
      FULL_OPPORTUNITY |-> <<"clinical", "literature", "market", "patents",
                             "web", "internal">> ]

\* req.intent of the requests: the four mapped intents and one that is not
OrchIntents == DOMAIN INTENT_AGENT_MAP \cup {"GENERAL"}

\* agent.upper() followed by the closing bracket of the tag
UpperTag(agent) ==
    CASE agent = "clinical"   -> "CLINICAL]"
      [] agent = "literature" -> "LITERATURE]"
      [] agent = "patents"    -> "PATENTS]"
      [] agent = "market"     -> "MARKET]"
      [] agent = "web"        -> "WEB]"
      [] agent = "internal"   -> "INTERNAL]"

WhiteSpace == {" ", "\n"}

AgentFailed == <<"ERROR: Agent call failed.">>

\* resp.text of an agent answering 200: its report, with or without white
\* space around it (the words of a report name the agent)
AgentTexts(agent) ==
    { <<agent>>, <<"\n", " ", agent, " ", agent \o "2", "\n", "\n">> }

\* str.strip()
RECURSIVE LStrip(_)
LStrip(s) == IF s # <<>> /\ Head(s) \in WhiteSpace THEN LStrip(Tail(s)) ELSE s

RECURSIVE RStrip(_)
RStrip(s) ==
    IF s # <<>> /\ s[Len(s)] \in WhiteSpace THEN RStrip(SubSeq(s, 1, Len(s) - 1)) ELSE s

Strip(s) == RStrip(LStrip(s))

\* pat occurs in s at position i
OccursAt(s, pat, i) ==
    /\ i + Len(pat) - 1 <= Len(s)
    /\ \A k \in 1..Len(pat) : s[i + k - 1] = pat[k]

\* pat in s
Contains(s, pat) == \E i \in 1..Len(s) : OccursAt(s, pat, i)

\* s.split(pat): the pieces of s between the occurrences of pat, left to right
RECURSIVE Split(_, _)
Split(s, pat) ==
    IF ~Contains(s, pat) THEN <<s>>
    ELSE LET i == CHOOSE i \in 1..Len(s) :
                    /\ OccursAt(s, pat, i)
                    /\ \A j \in 1..(i - 1) : ~OccursAt(s, pat, j)
         IN  <<SubSeq(s, 1, i - 1)>> \o Split(SubSeq(s, i + Len(pat), Len(s)), pat)

BundleStart == <<"=== EVIDENCE BUNDLE START ===", "\n", "\n">>

BundleEnd == <<"=== EVIDENCE BUNDLE END ===">>

TagPrefix == <<"[AGENT:">>

\* f"[AGENT: {agent.upper()}]"
Tag(agent) == TagPrefix \o <<" ", UpperTag(agent)>>

\* build_evidence_bundle over the items of agent_outputs in insertion order
RECURSIVE Sections(_)
Sections(outputs) ==
    IF outputs = <<>> THEN <<>>
    ELSE Tag(Head(outputs).agent) \o <<"\n">> \o Strip(Head(outputs).text)
           \o <<"\n", "\n">> \o Sections(Tail(outputs))

build_evidence_bundle(agent_outputs) == BundleStart \o Sections(agent_outputs) \o BundleEnd

\* the text synthesize takes for one agent out of full_evidence: what follows
\* the agent's tag up to the next tag prefix, stripped; "" without the tag
SectionTextToEnd(full_evidence, tag) ==
    IF Contains(full_evidence, tag)
    THEN LET parts == Split(full_evidence, tag)
         IN  IF Len(parts) > 1 THEN Strip(parts[2]) ELSE <<>>
    ELSE <<>>

SectionText(full_evidence, tag) ==
    IF Contains(full_evidence, tag)
    THEN LET parts == Split(full_evidence, tag)
         IN  IF Len(parts) > 1 THEN Strip(Split(parts[2], TagPrefix)[1]) ELSE <<>>
    ELSE <<>>

market_text(full_evidence) == SectionText(full_evidence, Tag("market"))

clinical_text(full_evidence) == SectionText(full_evidence, Tag("clinical"))

\* an orchestrate request that is not running
OrchIdle == [ pc |-> "idle", intent |-> "-", todo |-> <<>>, outputs |-> <<>>, calls |-> <<>> ]

\* the response of an orchestrate request, with the calls it made
OrchResponse(status, intent, calls, outputs, content) ==
    [ status |-> status, intent |-> intent, calls |-> calls, outputs |-> outputs,
      content |-> content ]

InitOrch ==
    /\ store = <<>>
    /\ db = <<>>
    /\ slot = [p \in Procs |-> OrchIdle]
    /\ last = OrchResponse(0, "-", <<>>, <<>>, <<>>)
    /\ turns = 0
    /\ incidents = 0

\* an intent outside the map: 400 before any call
OrchUnsupported(p) ==
    /\ \A q \in Procs : slot[q].pc = "idle"
    /\ turns < MaxTurns
    /\ \E intent \in OrchIntents \ DOMAIN INTENT_AGENT_MAP :
          last' = OrchResponse(400, intent, <<>>, <<>>, <<"ERROR: Unsupported intent">>)
    /\ turns' = turns + 1
    /\ UNCHANGED <<store, db, slot, incidents>>

\* a mapped intent: the loop starts on the first agent of the list.  The
\* requests share no variable of the module, so one request is followed at a
\* time, and last holds no response while it runs.
OrchBegin(p) ==
    /\ \A q \in Procs : slot[q].pc = "idle"
    /\ turns < MaxTurns
    /\ \E intent \in OrchIntents \cap DOMAIN INTENT_AGENT_MAP :
          slot' = [slot EXCEPT ![p] =
                     [ pc |-> "loop", intent |-> intent, todo |-> INTENT_AGENT_MAP[intent],
                       outputs |-> <<>>, calls |-> <<>> ]]
    /\ last' = OrchResponse(0, "-", <<>>, <<>>, <<>>)
    /\ turns' = turns + 1
    /\ UNCHANGED <<store, db, incidents>>

\* the call of the agent in turn has returned and text is recorded for it:
\* the loop goes on to the next agent, or the bundle is built and returned
Recorded(p, text) ==
    LET r       == slot[p]
        agent   == Head(r.todo)
        calls   == Append(r.calls, agent)
        outputs == Append(r.outputs, [agent |-> agent, text |-> text])
    IN  IF Tail(r.todo) = <<>>
        THEN /\ last' = OrchResponse(200, r.intent, calls, outputs, build_evidence_bundle(outputs))
             /\ slot' = [slot EXCEPT ![p] = OrchIdle]
        ELSE /\ slot' = [slot EXCEPT ![p] =
                           [r EXCEPT !.todo = Tail(r.todo), !.calls = calls, !.outputs = outputs]]
             /\ last' = last

\* status 200: resp.text
AgentAnswers(p) ==
    /\ slot[p].pc = "loop"
    /\ \E text \in AgentTexts(Head(slot[p].todo)) : Recorded(p, text)
    /\ UNCHANGED <<store, db, turns, incidents>>

\* another status: the placeholder
AgentNon200(p) ==
    /\ slot[p].pc = "loop"
    /\ incidents < MaxIncidents
    /\ Recorded(p, AgentFailed)
    /\ incidents' = incidents + 1
    /\ UNCHANGED <<store, db, turns>>

\* client.post raises (time-out after 90 s, connection error): nothing
\* catches it, the request ends with 500
AgentRaises(p) ==
    /\ slot[p].pc = "loop"
    /\ incidents < MaxIncidents
    /\ last' = OrchResponse(500, slot[p].intent, Append(slot[p].calls, Head(slot[p].todo)),
                            slot[p].outputs, <<"Internal Server Error">>)
    /\ slot' = [slot EXCEPT ![p] = OrchIdle]
    /\ incidents' = incidents + 1
    /\ UNCHANGED <<store, db, turns>>

OrchStep(p) ==
    \/ OrchUnsupported(p)
    \/ OrchBegin(p)
    \/ AgentAnswers(p)
    \/ AgentNon200(p)
    \/ AgentRaises(p)

NextOrch == \E p \in Procs : OrchStep(p)

SpecOrch == InitOrch /\ [][NextOrch]_vars

(***************************************************************************)
(* The cache key of lines 394-398 as a function of two turns' drug,        *)
(* active_conditions and resolved intent.  A drug is a string the          *)
(* interpreter returns after _normalize_text (lower case, white space      *)
(* collapsed, parentheses removed), which leaves a "|" in it.  Under       *)
(* SpecKey last holds the two triples and, once computed, their keys; the  *)
(* other variables are not used.                                           *)
(***************************************************************************)
KeyDrugs == {"x", "x|mash", "y"}

KeyConditions == {<<"mash">>, <<"nash">>, <<"mash", "nash">>, <<"nash", "mash">>}

KeyTriples == [drug : KeyDrugs, conditions : KeyConditions, intent : NonGeneral]

\* the key synthesize computes for a triple
KeyOfTriple(t) == CacheKey(t.drug, ConditionKey(t.conditions), t.intent)

InitKey ==
    /\ store = <<>>
    /\ db = <<>>
    /\ slot = [p \in Procs |-> IdleSlot]
    /\ last \in [a : KeyTriples, b : KeyTriples, keys : {<<>>}]
    /\ turns = 0
    /\ incidents = 0

ComputeKeys ==
    /\ last.keys = <<>>
    /\ last' = [last EXCEPT !.keys = <<KeyOfTriple(last.a), KeyOfTriple(last.b)>>]
    /\ UNCHANGED <<store, db, slot, turns, incidents>>

NextKey == ComputeKeys

SpecKey == InitKey /\ [][NextKey]_vars

(***************************************************************************)
(* Turns of several authenticated users (current_user of synthesize).      *)
(* Under SpecUsers the requests are served one after the other and the     *)
(* collaborators answer: an action is a whole request.  The rows of the    *)
(* chat_history table carry the user_id of the request that wrote them;    *)
(* last holds, for the request served last, its user, its conversation id, *)
(* the state dict it worked on after "SAFE CONVERSATION INIT" and the user *)
(* of the row that state was hydrated from ("-" when it was not hydrated). *)
(***************************************************************************)
Users == {"u1", "u2"}

\* ChatHistory(conversation_id=cid, user_id=current_user.user_id, ...)
RowOfUser(row, u) == [user |-> u] @@ row

\* what last records when a request of u on cid begins
TurnOfUser(u, cid) ==
    [ user  |-> u, cid |-> cid, n |-> turns + 1,
      found |-> Loaded(cid),
      seed  |-> IF cid \notin DOMAIN store /\ HasHistory(cid) THEN LastRow(cid).user ELSE "-" ]

\* the cache after the evidence loop: one text stored per key it missed
RECURSIVE Fetched(_, _, _, _, _)
Fetched(cache, drugs, condition_key, intent, n) ==
    LET misses == Misses(drugs, cache, condition_key, intent)
    IN  IF misses = {} THEN cache
        ELSE LET d == CHOOSE d \in misses : TRUE
             IN  Fetched(Put(cache, CacheKey(d, condition_key, intent), Text(n, d)),
                         drugs, condition_key, intent, n)

InitUsers ==
    /\ store = <<>>
    /\ db = <<>>
    /\ slot = [p \in Procs |-> IdleSlot]
    /\ last = [user |-> "-", cid |-> "-", n |-> 0, found |-> DefaultState, seed |-> "-"]
    /\ turns = 0
    /\ incidents = 0

\* a turn that passes arbitration, from lock resolution to the saved row
UserAnalysis(u) ==
    /\ turns < MaxTurns
    /\ \E cid \in CIDs, drugs \in DrugInputs, conds \in CondInputs, intent \in NonGeneral :
         LET st == Loaded(cid) IN
         /\ ~Rejects(st.conditions, conds)
         /\ \E active \in LockedLists(st.conditions, conds) :
              /\ active # <<>>
              /\ LET seen     == AccumulateDrugs(st.drugs, drugs)
                     resolved == ResolvedIntent(intent, st.last_intent)
                     mode     == ModeOf(seen)
                     st1      == UpdateConversation(st, [active_conditions |-> active])
                     st2      == UpdateConversation(st1, [drugs_seen |-> seen])
                     st3      == UpdateConversation(st2, [last_intent |-> resolved])
                     st4      == UpdateConversation(st3, [mode |-> mode])
                     cache    == Fetched(st4.cache, seen, ConditionKey(active), resolved, turns + 1)
                     sl       == [Begin(cid, conds, intent) EXCEPT
                                     !.intent = resolved, !.mode = mode,
                                     !.conditions = active, !.drugs = seen]
                 IN  /\ store' = WithState(cid, [st4 EXCEPT !.cache = cache])
                     /\ db' = Append(db, RowOfUser(AnalysisRow(sl, LLMAnswer, "None"), u))
         /\ last' = TurnOfUser(u, cid)
    /\ turns' = turns + 1
    /\ UNCHANGED <<slot, incidents>>

\* a GENERAL turn, from the prompt to the saved row
UserGeneral(u) ==
    /\ turns < MaxTurns
    /\ \E cid \in CIDs, conds \in CondInputs :
         LET sl == Begin(cid, conds, "GENERAL") IN
         /\ store' = WithState(cid, UpdateConversation(GeneralState(Loaded(cid), conds),
                                       [chat_entry |-> [n |-> sl.n, assistant |-> LLMAnswer]]))
         /\ db' = Append(db, RowOfUser(GeneralRow(sl, LLMAnswer), u))
         /\ last' = TurnOfUser(u, cid)
    /\ turns' = turns + 1
    /\ UNCHANGED <<slot, incidents>>

\* a turn refused for a condition change, or for want of a condition
UserRefused(u) ==
    /\ turns < MaxTurns
    /\ \E cid \in CIDs, conds \in CondInputs :
         /\ \/ Rejects(Loaded(cid).conditions, conds)
            \/ LockedLists(Loaded(cid).conditions, conds) = {<<>>}
         /\ store' = WithState(cid, RejectState(Loaded(cid), conds))
         /\ last' = TurnOfUser(u, cid)
    /\ turns' = turns + 1
    /\ UNCHANGED <<db, slot, incidents>>

NextUsers ==
    \/ \E u \in Users : UserAnalysis(u)
    \/ \E u \in Users : UserGeneral(u)
    \/ \E u \in Users : UserRefused(u)
    \/ Restart

SpecUsers == InitUsers /\ [][NextUsers]_vars

(***************************************************************************)
(* Vocabulary of the properties.                                           *)
(***************************************************************************)
\* the fields of a state dict that arbitration and the dispatcher work on
Arbitrated(st) == <<st.conditions, st.drugs, st.last_intent, st.mode, st.cache>>

\* the cache key of drug d in the request with locals r
KeyOf(r, d) == CacheKey(d, ConditionKey(r.conditions), r.intent)

\* the request with locals r has built its prompt
Prompted(r) == r.pc \in {"llm", "viz"} \/ (r.pc = "done" /\ r.result.type = "analysis")

\* the drugs of request r that the cache answered when the request began
HitsAtStart(r) == {d \in r.drugs : KeyOf(r, d) \in DOMAIN r.cache0}

(***************************************************************************)
(* C1.  A non-general turn that supplies conditions disjoint (lower-cased) *)
(* from a non-empty lock is answered with the "Condition change is not     *)
(* allowed" error result, and conditions, drugs, last_intent, mode and     *)
(* evidence_cache of the conversation are what they were when the turn     *)
(* began.                                                                  *)
(***************************************************************************)
C1_DisjointTurnRejected ==
    [][ turns' = turns + 1 =>
          \A r \in {last'} \cup {slot'[p] : p \in Procs} :
            ( /\ r.n = turns'
              /\ r.interp \in NonGeneral
              /\ Loaded(r.cid).conditions # <<>>
              /\ r.conds_in # <<>>
              /\ LowerSet(Loaded(r.cid).conditions) \cap LowerSet(r.conds_in) = {} )
            => /\ r.pc = "done"
               /\ r.result = [ type |-> "error",
                               answer |-> "Condition change is not allowed. Please start a new chat.",
                               conversation_id |-> r.cid ]
               /\ r.cid \in DOMAIN store'
               /\ Arbitrated(store'[r.cid]) = Arbitrated(Loaded(r.cid)) ]_vars

C1_Witness ==
    /\ last.pc = "done"
    /\ last.result.type = "error"
    /\ last.cid \in DOMAIN store
    /\ store[last.cid].conditions # <<>>
    /\ last.conds_in # <<>>
    /\ LowerSet(store[last.cid].conditions) \cap LowerSet(last.conds_in) = {}

C3_DrugsSeenGrows ==
    [][ \A cid \in DOMAIN store \cap DOMAIN store' :
          store[cid].drugs \subseteq store'[cid].drugs ]_vars

C3_Witness ==
    /\ last.pc = "done"
    /\ last.result.type \in {"error", "conversation"}
    /\ last.cid \in DOMAIN store
    /\ Cardinality(store[last.cid].drugs) = 2
    /\ incidents = 0

(***************************************************************************)
(* C4.  In every state of the Session Store the mode of a conversation is  *)
(* COMPARISON when its drugs_seen holds more than one drug and SINGLE      *)
(* otherwise.                                                              *)
(***************************************************************************)
C4_ModeMatchesDrugs ==
    \A cid \in DOMAIN store :
        store[cid].mode =
            IF Cardinality(store[cid].drugs) > 1 THEN "COMPARISON" ELSE "SINGLE"

(***************************************************************************)
(* C5.  With requests served one after the other: a turn calls the         *)
(* aggregation service once for each of its keys that the cache does not   *)
(* hold when the turn begins and never for a key it holds; for a key it    *)
(* holds, the prompt is built from the text stored by the turn that        *)
(* fetched it; and a stored text is not replaced while the conversation    *)
(* stays in the Session Store.                                             *)
(***************************************************************************)
C5_CachedKeyNotRefetched ==
    /\ [](\A r \in {last} \cup {slot[p] : p \in Procs} :
            Prompted(r) =>
              /\ r.calls.orch = Cardinality(r.drugs \ HitsAtStart(r))
              /\ \A d \in HitsAtStart(r) : r.evidence[d] = r.cache0[KeyOf(r, d)])
    /\ [][ \A cid \in DOMAIN store \cap DOMAIN store' :
             \A k \in DOMAIN store[cid].cache :
                /\ k \in DOMAIN store'[cid].cache
                /\ store'[cid].cache[k] = store[cid].cache[k] ]_vars

\* a second turn on the key of an earlier turn: no call, the earlier text
C5_Witness ==
    /\ last.pc = "done"
    /\ last.result.type = "analysis"
    /\ last.drugs # {}
    /\ HitsAtStart(last) = last.drugs
    /\ last.calls.orch = 0
    /\ \E d \in last.drugs : \E n \in 1..(last.n - 1) : last.evidence[d] = Text(n, d)

(***************************************************************************)
(* C6.  A turn interpreted as GENERAL in a conversation whose last         *)
(* resolved intent is CLINICAL reports CLINICAL as its intent, and         *)
(* CLINICAL is the intent recorded for the turn.                           *)
(***************************************************************************)
C6_GeneralTurnReusesIntent ==
    ( /\ last.pc = "done"
      /\ last.interp = "GENERAL"
      /\ last.prior = "CLINICAL"
      /\ last.result.type = "conversation"
      /\ \E i \in RowsOf(last.cid) : db[i].n < last.n /\ db[i].intent = "CLINICAL" )
    => /\ last.result.intent = "CLINICAL"
       /\ \A i \in RowsOf(last.cid) : db[i].n = last.n => db[i].intent = "CLINICAL"

(***************************************************************************)
(* C7.  After a turn of a conversation has been handled in COMPARISON      *)
(* mode, every later analysis turn of the conversation is reported in      *)
(* COMPARISON mode.                                                        *)
(***************************************************************************)
C7_ComparisonNeverReverts ==
    ( /\ last.pc = "done"
      /\ last.result.type = "analysis"
      /\ \E i \in RowsOf(last.cid) : db[i].n < last.n /\ db[i].mode = "COMPARISON" )
    => last.result.mode = "COMPARISON"

(***************************************************************************)
(* C8.  Once a conversation has had a non-empty condition lock, its        *)
(* active_conditions is never empty again, and a later analysis turn works *)
(* on a lock that contains the earlier one.                                *)
(***************************************************************************)
C8_LockNeverLost ==
    /\ \A cid \in DOMAIN store :
          (\E i \in RowsOf(cid) : db[i].conditions # <<>>)
             => store[cid].conditions # <<>>
    /\ ( last.pc = "done" /\ last.result.type = "analysis" )
          => \A i \in RowsOf(last.cid) :
                db[i].n < last.n => Range(db[i].conditions) \subseteq Range(last.conditions)

(***************************************************************************)
(* C9.  A non-general turn that has passed arbitration returns an          *)
(* analysis result with a textual answer whatever the aggregation service  *)
(* answers, and the step in which a call to the aggregation service fails  *)
(* leaves the Session Store, its evidence cache included, as it was.       *)
(***************************************************************************)
C9_AggregationFailureTolerated ==
    /\ []( ( /\ last.pc = "done"
             /\ last.interp \in NonGeneral
             /\ last.conditions # <<>> )
           => /\ last.result.type = "analysis"
              /\ last.result.answer \in {LLMAnswer, Apology} )
    /\ [][ \A p \in Procs :
             ( slot[p].pc = "orch" /\ slot'[p].pc = "idle" /\ turns' = turns )
                => store' = store ]_vars

(***************************************************************************)
(* C10.  The step that refuses a turn for a disjoint condition set adds no *)
(* row to the chat_history table and starts no call to the aggregation,    *)
(* completion or visualization service.                                    *)
(***************************************************************************)
C10_RejectedTurnCallsNothing ==
    [][ ( /\ turns' = turns + 1
          /\ last'.n = turns'
          /\ last'.result.type = "error" )
        => /\ db' = db
           /\ slot' = slot
           /\ last'.calls = [orch |-> 0, llm |-> 0, viz |-> 0, rows |-> 0] ]_vars

C10_Witness ==
    /\ last.pc = "done"
    /\ last.result.type = "error"
    /\ last.calls = [orch |-> 0, llm |-> 0, viz |-> 0, rows |-> 0]
    /\ \A i \in 1..Len(db) : db[i].n # last.n
    /\ db # <<>>

(***************************************************************************)
(* C11.  Neither step of a turn interpreted as GENERAL (the one up to the  *)
(* completion call, the one after it) starts a call to the aggregation     *)
(* service or changes active_conditions, drugs_seen, last_intent, mode or  *)
(* evidence_cache of the conversation, whatever conditions the message     *)
(* names and whether or not a lock exists; the turn gets an answer from    *)
(* the completion call and appends it to chat_history.                     *)
(***************************************************************************)
C11_GeneralTurnLeavesState ==
    [][ \A p \in Procs :
          /\ ( slot[p].pc = "idle" /\ slot'[p].pc = "gen_llm" )
               => /\ slot'[p].cid \in DOMAIN store'
                  /\ Arbitrated(store'[slot'[p].cid]) = Arbitrated(Loaded(slot'[p].cid))
                  /\ slot'[p].calls.orch = 0
                  /\ db' = db
          /\ ( slot[p].pc = "gen_llm" /\ last'.n = slot[p].n )
               => /\ Arbitrated(store'[slot[p].cid]) = Arbitrated(store[slot[p].cid])
                  /\ last'.calls.orch = 0
                  /\ last'.answer \in {LLMAnswer, Apology}
                  /\ store'[slot[p].cid].chat_history # <<>>
                  /\ store'[slot[p].cid].chat_history[Len(store'[slot[p].cid].chat_history)]
                        = [n |-> last'.n, assistant |-> last'.answer] ]_vars

\* a GENERAL turn whose message names a condition is answered in a
\* conversation that has no lock, and none is set
C11_Witness ==
    /\ last.pc = "done"
    /\ last.interp = "GENERAL"
    /\ last.conds_in # <<>>
    /\ last.result.type = "conversation"
    /\ last.result.answer = LLMAnswer
    /\ last.cid \in DOMAIN store
    /\ store[last.cid].conditions = <<>>
    /\ store[last.cid].last_intent = "None"

(***************************************************************************)
(* C12.  A non-general turn in a conversation without a lock whose message *)
(* names no condition ends in its first step with the 400 error "No        *)
(* condition set": the step leaves active_conditions, drugs_seen,          *)
(* last_intent, mode and evidence_cache as loaded, adds no row and starts  *)
(* no aggregation, completion or visualization call.                       *)
(***************************************************************************)
C12_NoConditionFailsEarly ==
    [][ turns' = turns + 1 =>
          \A r \in {last'} \cup {slot'[p] : p \in Procs} :
            ( /\ r.n = turns'
              /\ r.interp \in NonGeneral
              /\ Loaded(r.cid).conditions = <<>>
              /\ r.conds_in = <<>> )
            => /\ r.pc = "done"
               /\ r.result = [ type |-> "http_error", status |-> 400,
                               detail |-> "No condition set" ]
               /\ r.cid \in DOMAIN store'
               /\ Arbitrated(store'[r.cid]) = Arbitrated(Loaded(r.cid))
               /\ r.calls = [orch |-> 0, llm |-> 0, viz |-> 0, rows |-> 0]
               /\ db' = db
               /\ slot' = slot ]_vars

\* such a turn has ended with the error, its conversation is in the store
\* with no lock and no drug
C12_Witness ==
    /\ last.pc = "done"
    /\ last.interp \in NonGeneral
    /\ last.result.type = "http_error"
    /\ last.result.status = 400
    /\ last.conds_in = <<>>
    /\ last.cid \in DOMAIN store
    /\ store[last.cid].conditions = <<>>
    /\ store[last.cid].drugs = {}
    /\ store[last.cid].last_intent = "None"

(***************************************************************************)
(* C13.  Within one lifetime of the process no two calls to the            *)
(* aggregation service are made for one composite key of a conversation    *)
(* (no call is in flight for a key the cache holds, no two calls are in    *)
(* flight for one key), and no step replaces the text stored under a key.  *)
(***************************************************************************)
C13_OneFetchPerKey ==
    /\ [](\A p \in Procs :
            slot[p].pc = "orch" =>
              /\ KeyOf(slot[p], slot[p].cur) \notin DOMAIN store[slot[p].cid].cache
              /\ \A q \in Procs \ {p} :
                   ~( /\ slot[q].pc = "orch"
                      /\ slot[q].cid = slot[p].cid
                      /\ KeyOf(slot[q], slot[q].cur) = KeyOf(slot[p], slot[p].cur) ))
    /\ [][ \A cid \in DOMAIN store \cap DOMAIN store' :
             \A k \in DOMAIN store[cid].cache :
                /\ k \in DOMAIN store'[cid].cache
                /\ store'[cid].cache[k] = store[cid].cache[k] ]_vars

(***************************************************************************)
(* C14.  With requests in flight at the same time: active_conditions,      *)
(* drugs_seen, last_intent and mode of a conversation held in the Session  *)
(* Store change only in the first step of a turn that passes arbitration,  *)
(* and that one step takes them from the values the store holds to the     *)
(* values arbitration of that turn gives on them (the lock is the union,   *)
(* drugs_seen keeps every drug and adds drugs of the message, last_intent  *)
(* is the turn's intent, mode follows the number of drugs); so the values  *)
(* are those of the turns arbitrated one after the other, and the lock and *)
(* the drugs of every turn in flight stay part of what the store holds.    *)
(***************************************************************************)
C14_ArbitrationNotInterleaved ==
    /\ [](\A p \in Procs :
            slot[p].pc \in {"orch", "llm", "viz"} =>
              /\ Range(slot[p].conditions) \subseteq Range(store[slot[p].cid].conditions)
              /\ slot[p].drugs \subseteq store[slot[p].cid].drugs)
    /\ [][ \A cid \in DOMAIN store \cap DOMAIN store' :
             <<store'[cid].conditions, store'[cid].drugs,
               store'[cid].last_intent, store'[cid].mode>>
               # <<store[cid].conditions, store[cid].drugs,
                   store[cid].last_intent, store[cid].mode>>
             => \E p \in Procs :
                  /\ slot[p].pc = "idle"
                  /\ slot'[p].pc \in {"orch", "llm"}
                  /\ slot'[p].n = turns'
                  /\ slot'[p].cid = cid
                  /\ slot'[p].interp \in NonGeneral
                  /\ Range(store'[cid].conditions)
                       = LowerSet(store[cid].conditions) \cup LowerSet(slot'[p].conds_in)
                  /\ \E drugs \in DrugInputs :
                       store'[cid].drugs = store[cid].drugs \cup drugs
                  /\ store'[cid].last_intent = slot'[p].interp
                  /\ store'[cid].mode =
                       IF Cardinality(store'[cid].drugs) > 1 THEN "COMPARISON" ELSE "SINGLE"
                  /\ slot'[p].conditions = store'[cid].conditions
                  /\ slot'[p].drugs = store'[cid].drugs
                  /\ slot'[p].mode = store'[cid].mode ]_vars

\* two turns of one conversation are in flight at once, the second has
\* widened the lock and added a drug, and the store holds both
C14_Witness ==
    \E p, q \in Procs :
      /\ p # q
      /\ slot[p].pc \in {"orch", "llm", "viz"}
      /\ slot[q].pc \in {"orch", "llm", "viz"}
      /\ slot[p].cid = slot[q].cid
      /\ slot[p].n < slot[q].n
      /\ slot[p].drugs # {}
      /\ slot[p].drugs # slot[q].drugs
      /\ Range(slot[p].conditions) # Range(slot[q].conditions)
      /\ store[slot[q].cid].drugs = slot[q].drugs
      /\ store[slot[q].cid].conditions = slot[q].conditions
      /\ store[slot[q].cid].mode = "COMPARISON"

(***************************************************************************)
(* C15.  The step of a turn that finds its conversation id missing from    *)
(* the Session Store adds a state under that id, and no other id.  When    *)
(* the chat_history table holds rows of the id, the turn works on          *)
(* active_conditions, drugs_seen, last_intent and mode of the latest row   *)
(* and on an empty evidence_cache and chat history; when it holds none,    *)
(* on the default state.  (A turn that passes arbitration adds its own     *)
(* conditions and drugs to the seeded ones in the same step; the prior     *)
(* intent a turn reads is looked at for turns whose interpretation         *)
(* succeeded.)                                                             *)
(***************************************************************************)
C15_MissingStateSeededFromLatestRow ==
    [][ \A cid \in CIDs :
          ( cid \notin DOMAIN store /\ cid \in DOMAIN store' ) =>
            /\ DOMAIN store' = DOMAIN store \cup {cid}
            /\ \E r \in {last'} \cup {slot'[p] : p \in Procs} :
                 LET rows == {i \in 1..Len(db) : db[i].cid = cid}
                     seed == IF rows = {}
                             THEN [ conditions |-> <<>>, drugs |-> {},
                                    intent |-> "None", mode |-> "SINGLE" ]
                             ELSE db[CHOOSE i \in rows : \A j \in rows : j <= i]
                 IN  /\ r.n = turns'
                     /\ r.cid = cid
                     /\ r.cache0 = <<>>
                     /\ r.interp # "-" => r.prior = seed.intent
                     /\ r.pc \in {"done", "gen_llm"} =>
                          store'[cid] = [ conditions   |-> seed.conditions,
                                          drugs        |-> seed.drugs,
                                          last_intent  |-> seed.intent,
                                          mode         |-> seed.mode,
                                          cache        |-> <<>>,
                                          chat_history |-> <<>> ]
                     /\ r.pc \in {"orch", "llm"} =>
                          /\ Range(seed.conditions) \subseteq Range(store'[cid].conditions)
                          /\ seed.drugs \subseteq store'[cid].drugs
                          /\ store'[cid].cache = <<>>
                          /\ store'[cid].chat_history = <<>> ]_vars

\* after a restart a GENERAL turn works on the state seeded from the second
\* of two rows, an analysis row that differs from the first
C15_Witness ==
    \E p \in Procs :
      /\ slot[p].pc = "gen_llm"
      /\ slot[p].n = turns
      /\ Len(db) = 2
      /\ db[1].cid = slot[p].cid
      /\ db[2].cid = slot[p].cid
      /\ db[1].conditions # db[2].conditions
      /\ db[2].conditions # <<>>
      /\ db[2].drugs # {}
      /\ store[slot[p].cid] = [ conditions   |-> db[2].conditions,
                                drugs        |-> db[2].drugs,
                                last_intent  |-> db[2].intent,
                                mode         |-> db[2].mode,
                                cache        |-> <<>>,
                                chat_history |-> <<>> ]

(***************************************************************************)
(* C16.  Every turn that has obtained its answer from the completion call  *)
(* returns its normal result (an analysis result or a conversation result  *)
(* carrying that answer), whether or not the commit of its chat_history    *)
(* row succeeds.                                                           *)
(***************************************************************************)
C16_CommitFailureDoesNotBlockAnswer ==
    ( /\ last.pc = "done"
      /\ last.answer \in {LLMAnswer, Apology} )
    => /\ last.result.type \in {"analysis", "conversation"}
       /\ last.result.answer = last.answer

(***************************************************************************)
(* C17.  A step in which the completion call of a turn fails (and the      *)
(* commit, if the step has one, succeeds) goes on with the fixed apology   *)
(* as the answer: on the GENERAL path the apology is appended to the chat  *)
(* history of the state, recorded in the row and returned in a             *)
(* conversation result; on the analysis path it is recorded in the row and *)
(* returned in an analysis result, or carried to the visualization call.   *)
(* An analysis turn always ends with an analysis result carrying the       *)
(* answer of its completion call.                                          *)
(***************************************************************************)
C17_CompletionFailureGivesApology ==
    [][ \A p \in Procs :
          /\ ( /\ slot[p].pc = "gen_llm"
               /\ last'.n = slot[p].n
               /\ incidents' = incidents + 1
               /\ last'.calls.rows = 1 )
             => /\ last'.result.type = "conversation"
                /\ last'.result.answer = "Sorry, I couldn't generate a response at this time."
                /\ Len(db') = Len(db) + 1
                /\ db'[Len(db')].n = last'.n
                /\ db'[Len(db')].answer = last'.result.answer
                /\ store'[last'.cid].chat_history[Len(store'[last'.cid].chat_history)]
                     = [n |-> last'.n, assistant |-> last'.result.answer]
          /\ ( /\ slot[p].pc = "llm"
               /\ last'.n = slot[p].n
               /\ incidents' = incidents + 1
               /\ last'.calls.rows = 1 )
             => /\ last'.result.answer = "Sorry, I couldn't generate a response at this time."
                /\ Len(db') = Len(db) + 1
                /\ db'[Len(db')].n = last'.n
                /\ db'[Len(db')].answer = last'.result.answer
          /\ ( /\ slot[p].pc = "llm"
               /\ slot'[p].pc = "viz"
               /\ incidents' = incidents + 1 )
             => slot'[p].answer = "Sorry, I couldn't generate a response at this time."
          /\ ( /\ slot[p].pc \in {"llm", "viz"}
               /\ last'.n = slot[p].n )
             => /\ last'.result.type = "analysis"
                /\ last'.result.answer = last'.answer
                /\ last'.answer \in {LLMAnswer, Apology}
                /\ slot[p].pc = "viz" => last'.answer = slot[p].answer ]_vars

\* an analysis turn whose completion call failed has returned the apology
\* and its row holds it
C17_Witness ==
    /\ last.pc = "done"
    /\ last.result.type = "analysis"
    /\ last.result.answer = Apology
    /\ last.calls = [orch |-> 1, llm |-> 1, viz |-> 0, rows |-> 1]
    /\ db # <<>>
    /\ db[Len(db)].n = last.n
    /\ db[Len(db)].answer = Apology

(***************************************************************************)
(* C18.  The step in which the visualization call of a turn returns ends   *)
(* the turn with an analysis result carrying the answer of the completion  *)
(* call, whatever the outcome of the visualization call; when that call    *)
(* fails (exception, timeout, status other than 200) the result holds no   *)
(* visualizations, and (the commit succeeding) the row of the turn is      *)
(* added to the chat_history table with that answer and no visualizations. *)
(***************************************************************************)
C18_VisualizationFailureSwallowed ==
    [][ \A p \in Procs :
          ( slot[p].pc = "viz" /\ last'.n = slot[p].n )
          => /\ last'.result.type = "analysis"
             /\ last'.result.answer = slot[p].answer
             /\ last'.result.visualizations \in {"VIZ", "None"}
             /\ incidents' = incidents => last'.result.visualizations = "VIZ"
             /\ incidents' # incidents /\ last'.calls.rows = 1
                  => /\ last'.result.visualizations = "None"
                     /\ db' = Append(db, [ n |-> slot[p].n, cid |-> slot[p].cid,
                                           answer |-> slot[p].answer,
                                           conditions |-> slot[p].conditions,
                                           drugs |-> slot[p].drugs,
                                           intent |-> slot[p].intent,
                                           mode |-> slot[p].mode,
                                           viz |-> "None" ]) ]_vars

\* a turn whose visualization call failed has returned its answer without
\* visualizations and its row is in the table
C18_Witness ==
    /\ last.pc = "done"
    /\ last.calls = [orch |-> 1, llm |-> 1, viz |-> 1, rows |-> 1]
    /\ last.result.type = "analysis"
    /\ last.result.answer = LLMAnswer
    /\ last.result.visualizations = "None"
    /\ db # <<>>
    /\ db[Len(db)].n = last.n
    /\ db[Len(db)].viz = "None"

C20_LastIntentNeverGeneral ==
    \A cid \in DOMAIN store : store[cid].last_intent \in NonGeneral \cup {"None"}

(***************************************************************************)
(* C21.  The chat_history of a conversation never holds more than ten      *)
(* entries; a call that appends an entry keeps the entries already held in *)
(* their order and puts the new one last, and when ten are already held it *)
(* drops the first (oldest) one and no other.                              *)
(***************************************************************************)
C21_ChatHistoryKeepsLastTen ==
    /\ [](\A cid \in DOMAIN store : Len(store[cid].chat_history) <= 10)
    /\ [][ ( /\ turns' = turns + 1
             /\ last'.cid \in DOMAIN store
             /\ "chat_entry" \in DOMAIN last'.upd )
           => LET before == store[last'.cid].chat_history
                  after  == store'[last'.cid].chat_history
                  all    == before \o <<last'.upd.chat_entry>>
                  gone   == IF Len(all) > 10 THEN Len(all) - 10 ELSE 0
              IN  /\ Len(after) = Len(all) - gone
                  /\ gone <= 1
                  /\ \A i \in 1..Len(after) : after[i] = all[i + gone] ]_vars

\* an entry was appended to a full history: the oldest entry is gone, the
\* second oldest is first and the new entry is last
C21_Witness ==
    /\ turns > 0
    /\ "chat_entry" \in DOMAIN last.upd
    /\ last.cid \in DOMAIN store
    /\ Len(store[last.cid].chat_history) = 10
    /\ store[last.cid].chat_history[1] = PopulatedState.chat_history[2]
    /\ store[last.cid].chat_history[9] = PopulatedState.chat_history[10]
    /\ store[last.cid].chat_history[10] = last.upd.chat_entry

(***************************************************************************)
(* C22.  A turn makes at most one visualization call, and a turn that      *)
(* makes one (or is awaiting it) was not interpreted as GENERAL, is in     *)
(* SINGLE mode and has COMMERCIAL or FULL_OPPORTUNITY as resolved intent.  *)
(***************************************************************************)
C22_VisualizationOnlySingleCommercial ==
    \A r \in {last} \cup {slot[p] : p \in Procs} :
        /\ r.calls.viz <= 1
        /\ ( r.calls.viz = 1 \/ r.pc = "viz" )
             => /\ r.interp # "GENERAL"
                /\ r.mode = "SINGLE"
                /\ r.intent \in {"COMMERCIAL", "FULL_OPPORTUNITY"}
                /\ Cardinality(r.drugs) <= 1

\* a COMMERCIAL turn in SINGLE mode has made the call and returned its
\* visualizations
C22_Witness ==
    /\ last.pc = "done"
    /\ last.calls.viz = 1
    /\ last.mode = "SINGLE"
    /\ last.intent = "COMMERCIAL"
    /\ last.result.type = "analysis"
    /\ last.result.visualizations = "VIZ"

(***************************************************************************)
(* C23.  orchestrate calls the agents listed for a supported intent        *)
(* (CLINICAL: clinical, literature; COMMERCIAL: market, patents, web;      *)
(* INTERNAL: internal; FULL_OPPORTUNITY: all six) in the listed order and  *)
(* each at most once: the calls made so far followed by the agents still   *)
(* to call are the list.  A request that returns 200 has called the whole  *)
(* list and its bundle holds one tag "[AGENT: NAME]" per called agent, in  *)
(* that order.  A request with an intent that is not listed makes no call  *)
(* and returns 400.                                                        *)
(***************************************************************************)
C23_OrchestrateCallsMappedAgents ==
    LET listed == [ CLINICAL         |-> <<"clinical", "literature">>,
                    COMMERCIAL       |-> <<"market", "patents", "web">>,
                    INTERNAL         |-> <<"internal">>,
                    FULL_OPPORTUNITY |-> <<"clinical", "literature", "market",
                                           "patents", "web", "internal">> ]
        name   == [ clinical |-> "CLINICAL]", literature |-> "LITERATURE]",
                    market |-> "MARKET]", patents |-> "PATENTS]", web |-> "WEB]",
                    internal |-> "INTERNAL]" ]
        isName(t)   == \E a \in DOMAIN name : name[a] = t
        isPrefix(t) == t = "[AGENT:"
        names(text) == SelectSeq(text, isName)
    IN  /\ \A p \in Procs :
              slot[p].pc = "loop"
                 => /\ slot[p].intent \in DOMAIN listed
                    /\ slot[p].calls \o slot[p].todo = listed[slot[p].intent]
                    /\ slot[p].todo # <<>>
        /\ last.status = 200
              => /\ last.intent \in DOMAIN listed
                 /\ last.calls = listed[last.intent]
                 /\ Len(SelectSeq(last.content, isPrefix)) = Len(last.calls)
                 /\ Len(names(last.content)) = Len(last.calls)
                 /\ \A i \in 1..Len(last.calls) :
                       names(last.content)[i] = name[last.calls[i]]
                 /\ \A i \in 1..Len(last.content) :
                       isPrefix(last.content[i])
                          => /\ i + 2 <= Len(last.content)
                             /\ last.content[i + 1] = " "
                             /\ isName(last.content[i + 2])
        /\ last.status = 400 => last.intent \notin DOMAIN listed /\ last.calls = <<>>
        /\ last.status = 500
              => /\ last.intent \in DOMAIN listed
                 /\ \E k \in 1..Len(listed[last.intent]) :
                       last.calls = SubSeq(listed[last.intent], 1, k)
        /\ ( last.status # 0 /\ last.intent \notin DOMAIN listed ) => last.status = 400

\* a FULL_OPPORTUNITY request, not the first one received, has returned the
\* bundle of its six agents
C23_Witness ==
    /\ last.status = 200
    /\ last.intent = "FULL_OPPORTUNITY"
    /\ Len(last.calls) = 6
    /\ turns >= 2

(***************************************************************************)
(* C24.  The failure of one agent call (another status than 200, an        *)
(* exception, a time-out) leaves the request going: a request with a       *)
(* supported intent that has ended returned 200 after calling every agent  *)
(* listed for the intent, and the section of an agent that failed holds    *)
(* the placeholder.  This is violated: a call that raises ends the request *)
(* with 500 and the agents after it are not called.                        *)
(***************************************************************************)
C24_AgentFailureContained ==
    ( last.status # 0 /\ last.intent \in DOMAIN INTENT_AGENT_MAP )
       => /\ last.status = 200
          /\ last.calls = INTENT_AGENT_MAP[last.intent]
          /\ Len(last.outputs) = Len(last.calls)

(***************************************************************************)
(* C27.  For the bundle returned for COMMERCIAL or FULL_OPPORTUNITY, the   *)
(* MARKET slice synthesize takes is the output recorded for the market     *)
(* agent without the white space around it, and with a CLINICAL section in *)
(* the bundle (FULL_OPPORTUNITY) the CLINICAL slice is likewise the output *)
(* of the clinical agent; without one it is empty.  A slice holds no tag   *)
(* prefix, no bundle marker and no token that is not of its agent's        *)
(* output.  (No output of an agent of the model holds the tag prefix.)     *)
(***************************************************************************)
C27_SlicesAreAgentOutputs ==
    LET ws == {" ", "\n"}
        stripOf(s, raw) ==
            /\ \E i \in 1..(Len(raw) + 1) : \E j \in 0..Len(raw) :
                  /\ s = SubSeq(raw, i, j)
                  /\ \A k \in 1..(i - 1) : raw[k] \in ws
                  /\ \A k \in (j + 1)..Len(raw) : raw[k] \in ws
            /\ s # <<>> => s[1] \notin ws /\ s[Len(s)] \notin ws
        rawOf(agent) ==
            LET i == CHOOSE i \in 1..Len(last.outputs) : last.outputs[i].agent = agent
            IN  last.outputs[i].text
        clean(s, raw) ==
            \A k \in 1..Len(s) :
                /\ s[k] \notin {"[AGENT:", "=== EVIDENCE BUNDLE END ===",
                                "=== EVIDENCE BUNDLE START ==="}
                /\ \E n \in 1..Len(raw) : raw[n] = s[k]
    IN  ( last.status = 200 /\ last.intent \in {"COMMERCIAL", "FULL_OPPORTUNITY"} )
           => /\ stripOf(market_text(last.content), rawOf("market"))
              /\ clean(market_text(last.content), rawOf("market"))
              /\ last.intent = "FULL_OPPORTUNITY"
                    => /\ stripOf(clinical_text(last.content), rawOf("clinical"))
                       /\ clean(clinical_text(last.content), rawOf("clinical"))
              /\ last.intent = "COMMERCIAL" => clinical_text(last.content) = <<>>

\* the bundle of a FULL_OPPORTUNITY request whose market and clinical agents
\* answered with white space around their reports has been sliced
C27_Witness ==
    /\ last.status = 200
    /\ last.intent = "FULL_OPPORTUNITY"
    /\ last.outputs[1].text = <<"\n", " ", "clinical", " ", "clinical2", "\n", "\n">>
    /\ last.outputs[3].text = <<"\n", " ", "market", " ", "market2", "\n", "\n">>
    /\ market_text(last.content) = <<"market", " ", "market2">>
    /\ clinical_text(last.content) = <<"clinical", " ", "clinical2">>

(***************************************************************************)
(* C30.  With requests served one after the other: a bundle in which an    *)
(* agent's section holds the placeholder is stored in evidence_cache under *)
(* the key of the call that returned it, and a later turn that finds it    *)
(* under one of its keys makes no aggregation call for that key and        *)
(* builds its prompt from the stored bundle.                               *)
(***************************************************************************)
C30_PlaceholderBundleCached ==
    /\ [](\A r \in {last} \cup {slot[p] : p \in Procs} :
            LET held == {d \in HitsAtStart(r) :
                           \E n \in 1..turns : r.cache0[KeyOf(r, d)] = TextWithPlaceholder(n, d)}
            IN  ( Prompted(r) /\ held # {} )
                   => /\ r.calls.orch = Cardinality(r.drugs \ HitsAtStart(r))
                      /\ \A d \in held : r.evidence[d] = r.cache0[KeyOf(r, d)])
    /\ [][ \A p \in Procs :
             ( /\ slot[p].pc = "orch"
               /\ slot'[p].pc # "idle"
               /\ incidents' = incidents + 1 )
                => LET key == KeyOf(slot[p], slot[p].cur)
                       cid == slot[p].cid
                   IN  /\ key \in DOMAIN store'[cid].cache
                       /\ store'[cid].cache[key] = TextWithPlaceholder(slot[p].n, slot[p].cur) ]_vars

\* a turn on the key of an earlier turn whose bundle holds the placeholder:
\* no call, the prompt is built from that bundle
C30_Witness ==
    /\ last.pc = "done"
    /\ last.result.type = "analysis"
    /\ last.calls.orch = 0
    /\ \E d \in HitsAtStart(last) : \E n \in 1..(last.n - 1) :
          /\ last.cache0[KeyOf(last, d)] = TextWithPlaceholder(n, d)
          /\ last.evidence[d] = TextWithPlaceholder(n, d)

(***************************************************************************)
(* C25.  The keys of two turns are equal exactly when the turns have the   *)
(* same drug, the same set of locked conditions (whatever the order of the *)
(* list) and the same resolved intent.  This is violated: the key joins    *)
(* its parts with "|" and a part may hold "|", so two different triples    *)
(* can have one key.                                                       *)
(***************************************************************************)
C25_KeyDeterminedByTriple ==
    last.keys # <<>>
       => ( last.keys[1] = last.keys[2]
              <=> /\ last.a.drug = last.b.drug
                  /\ Range(last.a.conditions) = Range(last.b.conditions)
                  /\ last.a.intent = last.b.intent )

(***************************************************************************)
(* C26.  A turn that passes arbitration has a bundle for every drug label  *)
(* of its prompt when the completion call is made, the label NONE of a     *)
(* conversation that never named a drug included.  This is violated: with  *)
(* no drug named the evidence loop makes no call, and the prompt is built  *)
(* from the empty text.                                                    *)
(***************************************************************************)
C26_CompletionHasEvidence ==
    \A r \in {last} \cup {slot[p] : p \in Procs} :
        Prompted(r)
           => /\ DOMAIN r.evidence # {}
              /\ \A d \in DOMAIN r.evidence : r.evidence[d] # ""

(***************************************************************************)
(* C28.  A turn that ends without an answer because the aggregation call   *)
(* fails leaves the conversation's state as it found it: once it has       *)
(* ended, and before another turn begins, last_intent is the one the turn  *)
(* found, and after the first turn a process receives the conditions,      *)
(* drugs, last_intent and mode are those of a new conversation, of which   *)
(* no turn is recorded.  This is violated: the turn stored its lock,       *)
(* drugs, intent and mode before the call.                                 *)
(***************************************************************************)
C28_FailedTurnLeavesState ==
    ( /\ last.pc = "done"
      /\ last.result = HttpError(500, "orchestrate")
      /\ last.n = turns
      /\ last.cid \in DOMAIN store
      /\ \A p \in Procs : ~InFlight(p) )
    => /\ store[last.cid].last_intent = last.prior
       /\ last.n = 1
             => /\ RowsOf(last.cid) = {}
                /\ store[last.cid].conditions = DefaultState.conditions
                /\ store[last.cid].drugs = DefaultState.drugs
                /\ store[last.cid].last_intent = DefaultState.last_intent
                /\ store[last.cid].mode = DefaultState.mode

(***************************************************************************)
(* C29.  The state a turn of a user works on comes from that user's turns  *)
(* only: it is never hydrated from a row another user wrote, and a user    *)
(* who has no earlier turn recorded for the conversation id finds the      *)
(* state of a new conversation.  This is violated: the Session Store and   *)
(* the hydration query are keyed by the conversation id alone.             *)
(***************************************************************************)
C29_StateFromOwnTurnsOnly ==
    last.user \in Users
       => /\ last.seed \in {"-", last.user}
          /\ ( \A i \in RowsOf(last.cid) : db[i].n < last.n => db[i].user # last.user )
                => last.found = DefaultState

=============================================================================
